---- MODULE Spec2Model ----
(***************************************************************************)
(* Webhook ingestion pipeline of the WhatsApp Web clone                    *)
(* (backend WebhookProcessor, its phone/text helpers and the Message and   *)
(* Contact collections it writes).                                         *)
(*                                                                         *)
(* Strings that the code inspects character by character (phone numbers,   *)
(* timestamps, message text) are sequences of one-character strings; the   *)
(* empty sequence stands for an absent / null / undefined / '' value,      *)
(* which the code treats alike (all are falsy).                            *)
(***************************************************************************)
EXTENDS Integers, Sequences, FiniteSets, TLC

VARIABLES
    messages,    \* the 'messages' collection, in insertion order
    processed,   \* messageIds present in the 'processed_messages' collection
    contacts,    \* the 'contacts' collection: waId -> document
    counters,    \* WebhookProcessor's processedCount/errorCount/... fields
    main,        \* processPayload / processMessages / processMessageStatuses
    workers,     \* the processMessage calls of the current batch group
    ret,         \* outcome of the most recent handler call
    config,      \* WebhookProcessor.config
    budget,      \* inputs and storage faults still to come
    probe,       \* one evaluation of detectMessageDirection: input and result
    files        \* processJsonFiles: the directory's files and the results so far

vars == <<messages, processed, contacts, counters, main, workers, ret, config,
          budget, probe, files>>

-----------------------------------------------------------------------------
(* Bounds of the model *)

MaxMsgs == 2        \* messages delivered in one run
MaxStatuses == 2    \* status events delivered in one run
MaxContacts == 1    \* contacts[] entries delivered in one run
MaxItems == 3       \* messages, status events and contacts[] entries together
MaxChanges == 1     \* changes delivered in one run
MaxPayloads == 1    \* processPayload calls in one run
MaxFaults == 1      \* storage operations that fail in one run
MaxBacklogItems == 2 \* the same, in the runs that start from a backlog
MaxStormItems == 1   \* the same, in the runs where any storage operation may fail
MaxStormChanges == 1 \* changes delivered in such a run
MaxSiblingChanges == 2  \* changes delivered in a run whose entries have sibling changes
MaxSiblingStatuses == 1 \* status events delivered in such a run of the pipeline

-----------------------------------------------------------------------------
(* Characters and strings *)

Digits == {"0", "1", "2", "3", "4", "5", "6", "7", "8", "9"}

NoStr == <<>>

IsDigit(c) == c \in Digits

\* s.replace(/\D/g, '')
StripNonDigits(s) == SelectSeq(s, IsDigit)

\* s.startsWith(p)
StartsWith(s, p) == Len(s) >= Len(p) /\ SubSeq(s, 1, Len(p)) = p

\* s.slice(-n)
SliceLast(s, n) == IF Len(s) <= n THEN s ELSE SubSeq(s, Len(s) - n + 1, Len(s))

AllAre(s, c) == \A i \in 1..Len(s) : s[i] = c

-----------------------------------------------------------------------------
(* Phone numbers of the model *)

Biz0 == <<"9","1","8","3","2","9","4","4","6","6","5","4">>
Biz1 == <<"9","1","8","3","2","9","4","4","6","6","5">>
DispNum == <<"1","5","5","5","0","1","0","0","0","1","1">>
Ravi == <<"9","1","9","9","3","7","3","2","0","3","2","0">>
Neha == <<"9","2","9","9","6","7","6","7","3","8","2","0">>
RaviLocal == <<"9","9","3","7","3","2","0","3","2","0">>
RaviPlus == <<"+","9","1","9","9","3","7","3","2","0","3","2","0">>
ShortNum == <<"1","2","3","4","5">>
ZeroNum == <<"0","9","9","3","7","3","2","0","3","2","0">>

\* this.config.businessPhoneNumbers (WHATSAPP_PHONE_NUMBER unset)
businessPhoneNumbers == <<Biz0, Biz1, Biz0>>

-----------------------------------------------------------------------------
(* utils/helpers.js *)

CountryPrefix == <<"9","1">>

formatPhoneNumber(p) ==
    IF p = NoStr THEN NoStr
    ELSE LET cleaned == StripNonDigits(p)
         IN  IF ~StartsWith(cleaned, CountryPrefix) /\ Len(cleaned) = 10
             THEN CountryPrefix \o cleaned
             ELSE cleaned

\* /^[1-9]\d{9,14}$/ on the digits of w, minus the known invalid patterns
isValidWaId(w) ==
    IF w = NoStr THEN FALSE
    ELSE LET c == StripNonDigits(w)
         IN  /\ Len(c) >= 10 /\ Len(c) <= 15
             /\ c[1] # "0"
             /\ ~AllAre(c, "1")
             /\ ~AllAre(c, "0")
             /\ ~AllAre(c, "9")
             /\ ~StartsWith(c, <<"1","2","3","4","5">>)
             /\ ~StartsWith(c, <<"1","1","1","1","1">>)

IsSpace(c) == c \in {" ", "\n"}

RECURSIVE TrimLeft(_)
TrimLeft(s) == IF s # <<>> /\ IsSpace(Head(s)) THEN TrimLeft(Tail(s)) ELSE s

RECURSIVE TrimRight(_)
TrimRight(s) ==
    IF s # <<>> /\ IsSpace(s[Len(s)]) THEN TrimRight(SubSeq(s, 1, Len(s) - 1)) ELSE s

\* .replace(/\s+/g, ' ')
RECURSIVE CollapseSpaces(_)
CollapseSpaces(s) ==
    IF s = <<>> THEN <<>>
    ELSE IF IsSpace(Head(s))
         THEN <<" ">> \o CollapseSpaces(TrimLeft(s))
         ELSE <<Head(s)>> \o CollapseSpaces(Tail(s))

MaxTextLen == 4096

sanitizeMessageText(t) ==
    IF t = <<>> THEN <<>>
    ELSE LET c == CollapseSpaces(TrimRight(TrimLeft(t)))
         IN  IF Len(c) <= MaxTextLen THEN c ELSE SubSeq(c, 1, MaxTextLen)

PreviewLen == 50

generateMessagePreview(t) ==
    IF t = <<>> THEN <<>>
    ELSE LET s == sanitizeMessageText(t)
         IN  IF Len(s) <= PreviewLen THEN s
             ELSE SubSeq(s, 1, PreviewLen - 3) \o <<".", ".", ".">>

-----------------------------------------------------------------------------
(* Payload ids.  The code lower-cases the id and tests it for substrings;  *)
(* over the ids of the model the tests are these tables.                   *)

PayloadIds == {"", "conv1-msg1", "conv2-msg1", "payload-7"}

MentionsConv1(pid) == pid \in {"conv1-msg1"}   \* includes('conv1') || includes('ravi')
MentionsConv2(pid) == pid \in {"conv2-msg1"}   \* includes('conv2') || includes('neha')

\* variant: every payload passes for one with an _id
AnyPayloadId(pid) == TRUE

\* else if (originalPayload._id)
HasPayloadId(pid) == pid # ""

-----------------------------------------------------------------------------
(* Times.  A timestamp of the wire format is a string of decimal digits    *)
(* (epoch seconds); a Date is the digit string it was parsed from, NoDate   *)
(* an absent one, BadDate an Invalid Date.  Every read of the wall clock     *)
(* (Date.now(), new Date()) returns NowMs.                                   *)

TsA == <<"1","7","5","4","4","0","0","0","0","1">>
TsB == <<"1","7","5","4","4","0","0","0","0","2">>
NowMs == <<"1","7","5","4","4","0","0","0","0","9","0","0","0">>
NoDate == <<>>
BadDate == <<"NaN">>

\* new Date(parseInt(ts) * 1000)
RECURSIVE LeadingDigits(_)
LeadingDigits(s) ==
    IF s # <<>> /\ IsDigit(Head(s)) THEN <<Head(s)>> \o LeadingDigits(Tail(s)) ELSE <<>>

ParseDate(ts) == IF LeadingDigits(ts) = <<>> THEN BadDate ELSE LeadingDigits(ts)

-----------------------------------------------------------------------------
(* WebhookProcessor.extractMessageContent: msg.kind names the populated     *)
(* content sub-object ("none" when there is none), msg.body its text.body   *)
(* or caption.  Fixed texts of the code are single fragments.               *)

TxtImage == <<"[Image]">>
TxtDocument == <<"[Document: file]">>
TxtAudio == <<"[Audio Message]">>
TxtVideo == <<"[Video]">>
TxtSticker == <<"[Sticker]">>
TxtLocation == <<"[Location: Shared Location]">>
TxtContact == <<"[Contact: Shared Contact]">>
TxtUnknown == <<"[Unknown Message Type]">>

OrElse(a, b) == IF a # <<>> THEN a ELSE b

extractMessageContent(msg) ==
    CASE msg.kind = "text"     -> [text |-> msg.body, type |-> "text"]
      [] msg.kind = "image"    -> [text |-> OrElse(msg.body, TxtImage), type |-> "image"]
      [] msg.kind = "document" -> [text |-> OrElse(msg.body, TxtDocument), type |-> "document"]
      [] msg.kind = "audio"    -> [text |-> TxtAudio, type |-> "audio"]
      [] msg.kind = "video"    -> [text |-> OrElse(msg.body, TxtVideo), type |-> "video"]
      [] msg.kind = "sticker"  -> [text |-> TxtSticker, type |-> "sticker"]
      [] msg.kind = "location" -> [text |-> TxtLocation, type |-> "location"]
      [] msg.kind = "contacts" -> [text |-> TxtContact, type |-> "contact"]
      [] OTHER                 -> [text |-> TxtUnknown, type |-> "unknown"]

-----------------------------------------------------------------------------
(* WebhookProcessor.detectMessageDirection.  display is the change's        *)
(* metadata.display_phone_number, pid the payload's _id, rnd the outcome of *)
(* Math.random() > 0.5, now the value of Date.now().                        *)

\* [metadata?.display_phone_number, ...config.businessPhoneNumbers].filter(Boolean)
BusinessNumbers(display) ==
    SelectSeq(<<display>> \o businessPhoneNumbers, LAMBDA n : n # NoStr)

Includes(seq, x) == \E i \in 1..Len(seq) : seq[i] = x

StrUndefined == <<"u","n","d","e","f","i","n","e","d">>
StrNull == <<"n","u","l","l">>

Thrown == [ok |-> FALSE, waId |-> NoStr, isOutgoing |-> FALSE,
           fromNumber |-> NoStr, toNumber |-> NoStr, confidence |-> 0]

\* Methods 1-3: the first guess at <<waId, isOutgoing, confidence>>
PrimaryDetection(from, to, bpn) ==
    IF from # NoStr /\ Includes(bpn, from) THEN <<to, TRUE, 100>>
    ELSE IF to # NoStr /\ Includes(bpn, to) THEN <<from, FALSE, 100>>
    ELSE IF from # NoStr /\ ~Includes(bpn, from) THEN <<from, FALSE, 80>>
    ELSE <<NoStr, FALSE, 100>>

\* variant: the fallbacks keep the confidence the block starts with
FallbackAtFifty(msg, bpn, pid, rnd, now) ==
    IF msg.from # NoStr /\ ~Includes(bpn, msg.from) THEN <<msg.from, FALSE, 50>>
    ELSE IF msg.to # NoStr /\ ~Includes(bpn, msg.to) THEN <<msg.to, TRUE, 50>>
    ELSE IF HasPayloadId(pid)
         THEN IF MentionsConv1(pid) THEN <<Ravi, msg.from = bpn[1], 50>>
              ELSE IF MentionsConv2(pid) THEN <<Neha, msg.from = bpn[1], 50>>
              ELSE <<<<"9","9">> \o SliceLast(OrElse(msg.timestamp, now), 8), rnd, 50>>
         ELSE <<NoStr, FALSE, 50>>

\* the fallbacks taken when waId is still null
FallbackDetection(msg, bpn, pid, rnd, now) ==
    IF msg.from # NoStr /\ ~Includes(bpn, msg.from) THEN <<msg.from, FALSE, 60>>
    ELSE IF msg.to # NoStr /\ ~Includes(bpn, msg.to) THEN <<msg.to, TRUE, 60>>
    ELSE IF HasPayloadId(pid)
         THEN IF MentionsConv1(pid) THEN <<Ravi, msg.from = bpn[1], 40>>
              ELSE IF MentionsConv2(pid) THEN <<Neha, msg.from = bpn[1], 40>>
              ELSE <<<<"9","9">> \o SliceLast(OrElse(msg.timestamp, now), 8), rnd, 20>>
         ELSE <<NoStr, FALSE, 50>>

detectMessageDirection(msg, display, pid, rnd, now) ==
    LET bpn == BusinessNumbers(display)
        p == PrimaryDetection(msg.from, msg.to, bpn)
        d == IF p[1] = NoStr THEN FallbackDetection(msg, bpn, pid, rnd, now) ELSE p
    IN  IF d[1] = NoStr \/ d[1] = StrUndefined \/ d[1] = StrNull
        THEN Thrown
        ELSE LET waId == StripNonDigits(d[1])
             IN  [ok |-> TRUE,
                  waId |-> waId,
                  isOutgoing |-> d[2],
                  fromNumber |-> OrElse(msg.from, bpn[1]),
                  toNumber |-> OrElse(msg.to, waId),
                  confidence |-> d[3]]

\* whether the call gets as far as reading originalPayload._id
ReadsPayloadId(msg, bpn) ==
    /\ PrimaryDetection(msg.from, msg.to, bpn)[1] = NoStr
    /\ ~(msg.from # NoStr /\ ~Includes(bpn, msg.from))
    /\ ~(msg.to # NoStr /\ ~Includes(bpn, msg.to))

\* variant: the supplied status is taken whatever the direction
StatusFromSource(isOutgoing, msg) == IF msg.status # "" THEN msg.status ELSE "sent"

determineInitialStatus(isOutgoing, msg) ==
    IF isOutgoing THEN (IF msg.status # "" THEN msg.status ELSE "sent") ELSE "delivered"

-----------------------------------------------------------------------------
(* models/Message.js: the schema's validators, the pre-save hook and the    *)
(* unique index on messageId.                                                *)

StatusEnum == {"sending", "sent", "delivered", "read", "failed", "pending", "queued"}

MessageTypeEnum == {"text", "image", "video", "audio", "document", "sticker",
                    "location", "contact", "system"}

MinMessageIdLen == 3

\* waId validator: /^\d{10,15}$/
WaIdPattern(w) == Len(w) >= 10 /\ Len(w) <= 15 /\ \A i \in 1..Len(w) : IsDigit(w[i])

\* variant: validation without the enum of status
ValidWithAnyStatus(doc) ==
    /\ Len(doc.messageId) >= MinMessageIdLen
    /\ WaIdPattern(doc.waId)
    /\ doc.fromNumber # NoStr
    /\ doc.toNumber # NoStr
    /\ doc.text # <<>> /\ Len(doc.text) <= MaxTextLen
    /\ doc.type \in {"incoming", "outgoing"}
    /\ doc.timestamp # BadDate
    /\ doc.messageType \in MessageTypeEnum
    /\ doc.sentAt # BadDate /\ doc.deliveredAt # BadDate /\ doc.readAt # BadDate

\* document.validate() as run by save()
ValidMessage(doc) ==
    /\ Len(doc.messageId) >= MinMessageIdLen
    /\ WaIdPattern(doc.waId)
    /\ doc.fromNumber # NoStr
    /\ doc.toNumber # NoStr
    /\ doc.text # <<>> /\ Len(doc.text) <= MaxTextLen
    /\ doc.type \in {"incoming", "outgoing"}
    /\ doc.status \in StatusEnum
    /\ doc.timestamp # BadDate
    /\ doc.messageType \in MessageTypeEnum
    /\ doc.sentAt # BadDate /\ doc.deliveredAt # BadDate /\ doc.readAt # BadDate

\* messageSchema.pre('save'): the first time a status is seen its time is now
PreSave(doc) ==
    IF doc.status = "sent" /\ doc.sentAt = NoDate THEN [doc EXCEPT !.sentAt = NowMs]
    ELSE IF doc.status = "delivered" /\ doc.deliveredAt = NoDate
         THEN [doc EXCEPT !.deliveredAt = NowMs]
    ELSE IF doc.status = "read" /\ doc.readAt = NoDate THEN [doc EXCEPT !.readAt = NowMs]
    ELSE doc

\* variant: a lookup that never finds the document
FindNothing(store, id) == 0

\* Message.findOne({ messageId: id }): index of the document, 0 when none
FindIndex(store, id) ==
    IF \E i \in 1..Len(store) : store[i].messageId = id
    THEN CHOOSE i \in 1..Len(store) :
            /\ store[i].messageId = id
            /\ \A j \in 1..(i - 1) : store[j].messageId # id
    ELSE 0

\* variant: a collection without the unique index
NoUniqueIndex(store, id) == FALSE

\* the unique index on messageId rejects the insert (E11000)
DuplicateKey(store, id) == \E i \in 1..Len(store) : store[i].messageId = id

\* processMessage's new Message({...})
NewMessage(msg, det, pid) ==
    LET content == extractMessageContent(msg)
        waId == formatPhoneNumber(det.waId)
    IN  [messageId |-> msg.id,
         waId |-> waId,
         fromNumber |-> OrElse(formatPhoneNumber(det.fromNumber), businessPhoneNumbers[1]),
         toNumber |-> OrElse(formatPhoneNumber(det.toNumber), waId),
         text |-> sanitizeMessageText(content.text),
         type |-> IF det.isOutgoing THEN "outgoing" ELSE "incoming",
         status |-> determineInitialStatus(det.isOutgoing, msg),
         timestamp |-> ParseDate(msg.timestamp),
         messageType |-> content.type,
         confidence |-> det.confidence,
         status_only |-> FALSE,
         metaMsgId |-> "",
         status_updates |-> <<>>,
         sentAt |-> NoDate, deliveredAt |-> NoDate, readAt |-> NoDate,
         errorReason |-> ""]

\* the placeholder text, with its dash as a fragment of its own
TxtPlaceholder == <<"[Message content not available ", "-", " status only]">>

\* updateMessageStatus's placeholder new Message({...})
PlaceholderMessage(ev) ==
    [messageId |-> ev.id,
     waId |-> formatPhoneNumber(ev.recipient),
     fromNumber |-> businessPhoneNumbers[1],
     toNumber |-> formatPhoneNumber(ev.recipient),
     text |-> TxtPlaceholder,
     type |-> "outgoing",
     status |-> ev.status,
     timestamp |-> ParseDate(ev.timestamp),
     messageType |-> "text",
     confidence |-> 0,
     status_only |-> TRUE,
     metaMsgId |-> "",
     status_updates |-> <<>>,
     sentAt |-> NoDate, deliveredAt |-> NoDate, readAt |-> NoDate,
     errorReason |-> ""]

\* variant: no placeholder is ever created
PlaceholderNever(ev) == FALSE

\* variant: a placeholder for a failed status too
PlaceholderForAny(ev) == ev.recipient # NoStr

\* variant: a placeholder is built whether or not recipient_id is present
PlaceholderWithoutRecipient(ev) == ev.status # "failed"

\* if (status !== 'failed' && recipient_id)
PlaceholderWanted(ev) == ev.status # "failed" /\ ev.recipient # NoStr

\* variant: the found document is replaced by the document a placeholder
\* for the event would be
ApplyOverwriting(doc, ev) == PlaceholderMessage(ev)

\* variant: a status event never moves a Message back along
\* sent, delivered, read
StatusStage(status) ==
    CASE status = "sent" -> 1 [] status = "delivered" -> 2 [] status = "read" -> 3
      [] OTHER -> 0

ApplyForward(doc, ev) ==
    LET t == ParseDate(ev.timestamp)
        d1 == [doc EXCEPT
                 !.status = IF StatusStage(ev.status) < StatusStage(doc.status)
                            THEN @ ELSE ev.status,
                 !.metaMsgId = IF doc.metaMsgId = "" /\ ev.meta # "" THEN ev.meta ELSE @,
                 !.status_updates = Append(@, [from_status |-> doc.status,
                                               to_status |-> ev.status,
                                               timestamp |-> t])]
    IN  CASE ev.status = "sent"      -> [d1 EXCEPT !.sentAt = t]
          [] ev.status = "delivered" -> [d1 EXCEPT !.deliveredAt = t]
          [] ev.status = "read"      -> [d1 EXCEPT !.readAt = t]
          [] ev.status = "failed"    ->
                [d1 EXCEPT !.errorReason = IF ev.error # "" THEN ev.error ELSE "Unknown error"]
          [] OTHER                   -> d1

\* the in-memory changes updateMessageStatus makes to a found document
ApplyStatus(doc, ev) ==
    LET t == ParseDate(ev.timestamp)
        d1 == [doc EXCEPT
                 !.status = ev.status,
                 !.metaMsgId = IF doc.metaMsgId = "" /\ ev.meta # "" THEN ev.meta ELSE @,
                 !.status_updates = Append(@, [from_status |-> doc.status,
                                               to_status |-> ev.status,
                                               timestamp |-> t])]
    IN  CASE ev.status = "sent"      -> [d1 EXCEPT !.sentAt = t]
          [] ev.status = "delivered" -> [d1 EXCEPT !.deliveredAt = t]
          [] ev.status = "read"      -> [d1 EXCEPT !.readAt = t]
          [] ev.status = "failed"    ->
                [d1 EXCEPT !.errorReason = IF ev.error # "" THEN ev.error ELSE "Unknown error"]
          [] OTHER                   -> d1

\* variant: save() writes the whole document, webhookData included
SavesAll(old, new) == new

\* save() of a loaded document writes the paths whose change it tracked.
\* webhookData is a Mixed path and nothing marks it modified, so what was
\* assigned inside it (metaMsgId, status_updates) stays in memory.
SaveTracked(old, new) ==
    [new EXCEPT !.metaMsgId = old.metaMsgId, !.status_updates = old.status_updates]

-----------------------------------------------------------------------------
(* models/Contact.js and the contact operations of WebhookProcessor.  The   *)
(* updates run through findOneAndUpdate, which runs no schema validators.   *)

NoName == <<>>
GeneratedName(waId) == <<"Contact", waId>>
NoPic == ""

\* the schema defaults an upsert inserts
DefaultContact ==
    [name |-> NoName, profilePic |-> NoPic, lastMessage |-> <<>>,
     lastMessageTime |-> NowMs, unreadCount |-> 0, isActive |-> TRUE,
     source |-> "whatsapp-web-clone", totalMessages |-> 0]

HasContact(cs, waId) == waId \in DOMAIN cs

GetOrDefault(cs, waId) == IF HasContact(cs, waId) THEN cs[waId] ELSE DefaultContact

Put(cs, waId, doc) == [w \in DOMAIN cs \cup {waId} |-> IF w = waId THEN doc ELSE cs[w]]

\* variant: an existing Contact is left as it is
ensureKeepsProfile(cs, waId) ==
    LET w == formatPhoneNumber(waId)
    IN  IF HasContact(cs, w) THEN cs
        ELSE Put(cs, w, [DefaultContact EXCEPT
                           !.name = GeneratedName(w),
                           !.profilePic = NoPic,
                           !.isActive = TRUE,
                           !.source = "webhook-auto-create",
                           !.totalMessages = 0])

\* ensureContactExists(waId, `Contact ${waId}`)
ensureContactExists(cs, waId) ==
    LET w == formatPhoneNumber(waId)
    IN  Put(cs, w, [GetOrDefault(cs, w) EXCEPT
                      !.name = GeneratedName(w),
                      !.profilePic = NoPic,
                      !.isActive = TRUE,
                      !.source = "webhook-auto-create",
                      !.totalMessages = 0])

\* variant: the unread count is written with $set instead of $inc
SetsUnread(cs, waId, lastMessage, timestamp, unreadIncrement) ==
    LET w == formatPhoneNumber(waId)
    IN  Put(cs, w, [GetOrDefault(cs, w) EXCEPT
                      !.lastMessage = lastMessage,
                      !.lastMessageTime = timestamp,
                      !.unreadCount = unreadIncrement])

\* updateContactLastMessage(waId, lastMessage, timestamp, unreadIncrement)
updateContactLastMessage(cs, waId, lastMessage, timestamp, unreadIncrement) ==
    LET w == formatPhoneNumber(waId)
    IN  Put(cs, w, [GetOrDefault(cs, w) EXCEPT
                      !.lastMessage = lastMessage,
                      !.lastMessageTime = timestamp,
                      !.unreadCount = IF unreadIncrement > 0 THEN @ + unreadIncrement ELSE @])

\* upsertContact(contactData): c.wa_id, c.name (profile.name), c.picture
upsertContact(cs, c) ==
    LET w == formatPhoneNumber(c.wa_id)
    IN  IF ~isValidWaId(w) THEN cs
        ELSE Put(cs, w, [GetOrDefault(cs, w) EXCEPT
                           !.name = IF c.name # "" THEN <<"profile", c.name>>
                                    ELSE GeneratedName(w),
                           !.profilePic = c.picture,
                           !.isActive = TRUE,
                           !.source = "webhook",
                           !.totalMessages = 0])

\* Contact.findOneAndUpdate({ waId }, { $set: { unreadCount: 0 } }): no upsert
ResetUnread(cs, waId) ==
    IF HasContact(cs, waId) THEN [cs EXCEPT ![waId].unreadCount = 0] ELSE cs

-----------------------------------------------------------------------------
(* Inputs of the model *)

MsgIds == {"wamid.A", "wamid.B"}

TxtHi == <<"H","i">>
TxtSpaced == <<" ","H","i"," "," ","y","o","\n">>

Msg(id, from, to, kind, body, ts, status) ==
    [id |-> id, from |-> from, to |-> to, kind |-> kind, body |-> body,
     timestamp |-> ts, status |-> status]

\* the messages of the pipeline runs
MsgInputs ==
    { Msg("wamid.A", Biz0, Ravi, "text", TxtHi, TsA, ""),
      Msg("wamid.A", Ravi, Biz0, "text", TxtHi, TsA, ""),
      Msg("wamid.B", Ravi, Biz0, "text", TxtHi, TsA, "read"),
      Msg("wamid.B", NoStr, NoStr, "text", TxtHi, TsA, ""),
      Msg("wamid.B", Biz0, NoStr, "text", TxtHi, TsA, ""),
      Msg("wamid.B", ShortNum, Biz0, "text", TxtHi, TsA, ""),
      Msg("wamid.B", NoStr, RaviLocal, "text", TxtHi, TsA, ""),
      Msg("wamid.B", Ravi, Biz0, "none", <<>>, TsA, ""),
      Msg("wamid.B", Biz0, RaviPlus, "text", TxtSpaced, TsB, "queued"),
      Msg("wamid.B", Ravi, Biz0, "text", TxtHi, NoStr, ""),
      Msg("wamid.B", Ravi, NoStr, "text", TxtHi, TsA, "") }

\* the messages of the runs with storage faults
CoreMsgInputs ==
    { Msg("wamid.A", Ravi, Biz0, "text", TxtHi, TsA, ""),
      Msg("wamid.B", Ravi, Biz0, "text", TxtHi, TsA, ""),
      Msg("wamid.B", Biz0, Ravi, "text", TxtSpaced, TsB, ""),
      Msg("wamid.B", NoStr, NoStr, "text", TxtHi, TsA, "") }

Displays == {NoStr, DispNum}

StatusIds == {"wamid.A", "wamid.S"}

Event(id, meta, status, recipient, ts, error) ==
    [id |-> id, meta |-> meta, status |-> status, recipient |-> recipient,
     timestamp |-> ts, error |-> error]

\* the status events of the pipeline runs
StatusInputs ==
    { Event(id, "", st, Ravi, TsB, "") :
        id \in StatusIds, st \in {"delivered", "read", "failed"} }
    \cup { Event("wamid.S", "", "delivered", r, TsB, "") :
             r \in {NoStr, ShortNum, ZeroNum} }
    \cup { Event("wamid.S", "wamid.B", "sent", Ravi, TsB, ""),
           Event("wamid.A", "wamid.B", "sent", Ravi, TsB, ""),
           Event("wamid.A", "", "deleted", Ravi, TsB, ""),
           Event("m1", "", "delivered", Ravi, TsB, ""),
           Event("wamid.S", "", "delivered", Ravi, NoStr, ""),
           Event("wamid.S", "", "failed", NoStr, TsB, "rejected") }

\* the status events of the runs with storage faults
CoreStatusInputs ==
    { Event("wamid.A", "", "delivered", Ravi, TsB, ""),
      Event("wamid.A", "", "read", Ravi, TsB, ""),
      Event("wamid.S", "", "delivered", Ravi, TsB, ""),
      Event("wamid.S", "", "failed", Ravi, TsB, "") }

\* the status events of the runs over files: the same and one that the
\* Message schema rejects on every attempt
FileStatusInputs ==
    CoreStatusInputs \cup {Event("wamid.S", "", "delivered", ShortNum, TsB, "")}

ContactEntry(wa_id, name, picture) == [wa_id |-> wa_id, name |-> name, picture |-> picture]

ContactInputs ==
    { ContactEntry(Ravi, "Ravi Kumar", "https://pics.example/ravi.png"),
      ContactEntry(RaviLocal, "", NoPic),
      ContactEntry(ShortNum, "Nobody", NoPic) }

\* config.batchSize is 10 in the constructor and a configured integer for the
\* pipeline; the model also runs it with groups of one.
batchSize == 10
BatchSizes == {1, batchSize}

maxRetries == 3
RetryInterval == 1000

-----------------------------------------------------------------------------
(* State *)

NoCounters == [processedCount |-> 0, errorCount |-> 0, messageCount |-> 0,
               statusCount |-> 0, contactCount |-> 0]

NoEvent == Event("", "", "", NoStr, NoStr, "")

\* the payload's _id before anything has read it
Unread == "?"

\* main.more: the last slice of messages[] was full, so another may follow.
\* itemsOk / itemsFailed tally the messages and status events of the payload
\* whose processing returned / threw.
Idle ==
    [pc |-> "idle", payloadId |-> Unread, display |-> NoStr, entryIndex |-> -1,
     entryOpen |-> FALSE, processedItems |-> 0, errors |-> <<>>,
     msgBase |-> 0, more |-> FALSE, statusIndex |-> 0, ev |-> NoEvent,
     retryCount |-> 0, delay |-> 0, itemsOk |-> 0, itemsFailed |-> 0,
     contactsGiven |-> FALSE]

NoRet == [op |-> "none"]

\* processJsonFiles is not running
NoFiles == [pc |-> "off"]

NoProbe == [op |-> "none"]

InitStores ==
    /\ messages = <<>>
    /\ processed = {}
    /\ contacts = <<>>
    /\ counters = NoCounters
    /\ main = Idle
    /\ workers = <<>>
    /\ ret = NoRet

Budget(faults, inputs) ==
    [payloads |-> MaxPayloads, changes |-> MaxChanges, items |-> MaxItems,
     msgs |-> MaxMsgs, statuses |-> MaxStatuses, contacts |-> MaxContacts,
     faults |-> faults, inputs |-> inputs]

\* the pipeline with the constructor's configuration and a storage that works
Init ==
    /\ InitStores
    /\ config = [batchSize |-> batchSize, maxRetries |-> maxRetries]
    /\ budget = Budget(0, "full")
    /\ probe = NoProbe
    /\ files = NoFiles

\* the pipeline with a configured batch size and storage operations that may fail
InitFaults ==
    /\ InitStores
    /\ config \in [batchSize : BatchSizes, maxRetries : {maxRetries}]
    /\ budget = Budget(MaxFaults, "core")
    /\ probe = NoProbe
    /\ files = NoFiles

MsgChoices == IF budget.inputs = "full" THEN MsgInputs ELSE CoreMsgInputs

StatusChoices ==
    CASE budget.inputs = "full" -> StatusInputs
      [] budget.inputs \in {"files", "storm"} -> FileStatusInputs
      [] OTHER -> CoreStatusInputs

\* whether the storage operation about to run fails
FaultChoices == IF budget.faults > 0 THEN {FALSE, TRUE} ELSE {FALSE}

\* a failure uses up the budget of failures, except in the runs of class
\* "storm", where any number of storage operations may fail
Spend(b, fault) ==
    IF fault /\ b.inputs # "storm" THEN [b EXCEPT !.faults = @ - 1] ELSE b

\* n more inputs of one kind are delivered
Take(b, kind, n) == [b EXCEPT ![kind] = @ - n, !.items = @ - n]

Left(b, kind) == IF b[kind] <= b.items THEN b[kind] ELSE b.items

Min(a, b) == IF a <= b THEN a ELSE b

-----------------------------------------------------------------------------
(* processPayload *)

PayloadShapes == {"ok", "noMetaData", "entryNotArray"}

\* the head of processPayload: a payload without an entry array throws at
\* once, through the catch that counts the error
EnterPayload(shape) ==
    IF shape = "ok"
    THEN /\ main' = [Idle EXCEPT !.pc = "loop"]
         /\ ret' = NoRet
         /\ UNCHANGED counters
    ELSE /\ main' = Idle
         /\ counters' = [counters EXCEPT !.errorCount = @ + 1]
         /\ ret' = [op |-> "payload", outcome |-> "threw"]

\* processPayload is called with a payload
ReceivePayload ==
    /\ main.pc = "idle"
    /\ files.pc = "off"
    /\ budget.payloads > 0
    /\ \E shape \in PayloadShapes :
        /\ budget' = [budget EXCEPT !.payloads = @ - 1]
        /\ EnterPayload(shape)
    /\ UNCHANGED <<messages, processed, contacts, workers, config, probe, files>>

ChangeShapes == {"other", "novalue", "messages", "nomessages"}

\* the next change of the entry (or the first of the next entry) is read:
\* a change of another field, one without a value, one whose value has
\* messages[] (and perhaps contacts[]), one whose value has none (and perhaps
\* statuses[] or contacts[]).  contactsGiven records that the value of the
\* change has contacts[].
BeginChange ==
    /\ main.pc = "loop"
    /\ budget.changes > 0
    /\ \E newEntry \in BOOLEAN, shape \in ChangeShapes, display \in Displays,
          hasContacts \in BOOLEAN, hasStatuses \in BOOLEAN :
        /\ newEntry \/ main.entryOpen
        /\ shape # "messages" => display = NoStr
        /\ shape \notin {"messages", "nomessages"} => ~hasContacts
        /\ shape # "nomessages" => ~hasStatuses
        /\ hasContacts => Left(budget, "contacts") > 0
        /\ LET idx == IF newEntry THEN main.entryIndex + 1 ELSE main.entryIndex
               m0 == [main EXCEPT !.entryIndex = idx, !.entryOpen = TRUE,
                                  !.contactsGiven = hasContacts]
           IN  main' =
                 CASE shape = "other" -> m0
                   [] shape = "novalue" ->
                         \* change.value.messages throws; the entry's catch records it
                         [m0 EXCEPT !.entryOpen = FALSE,
                                    !.errors = Append(@, [index |-> idx])]
                   [] shape = "messages" ->
                         [m0 EXCEPT !.pc = IF hasContacts THEN "contacts" ELSE "batch",
                                    !.display = display, !.msgBase = 0, !.more = TRUE]
                   [] OTHER ->
                         [m0 EXCEPT !.pc = IF hasStatuses THEN "statuses" ELSE "loop",
                                    !.statusIndex = 0]
        /\ budget' = [budget EXCEPT !.changes = @ - 1]
    /\ ret' = NoRet
    /\ UNCHANGED <<messages, processed, contacts, counters, workers, config, probe, files>>

\* the entry loop is over: processPayload returns its result
EndPayload ==
    /\ main.pc = "loop"
    /\ counters' = [counters EXCEPT !.processedCount = @ + 1]
    /\ ret' = [op |-> "payload", outcome |-> "returned",
               processedItems |-> main.processedItems, errors |-> main.errors,
               itemsOk |-> main.itemsOk, itemsFailed |-> main.itemsFailed]
    /\ main' = Idle
    /\ UNCHANGED <<messages, processed, contacts, workers, config, budget, probe, files>>

-----------------------------------------------------------------------------
(* processMessages *)

\* one contacts[] entry: upsertContact, whose errors are swallowed
ProcessContact ==
    /\ main.pc = "contacts"
    /\ \E c \in ContactInputs, fault \in FaultChoices, again \in BOOLEAN :
        LET b == Take(Spend(budget, fault), "contacts", 1)
        IN  /\ again => Left(b, "contacts") > 0
            /\ budget' = b
            /\ IF fault \/ ~isValidWaId(formatPhoneNumber(c.wa_id))
               THEN UNCHANGED <<contacts, counters>>
               ELSE /\ contacts' = upsertContact(contacts, c)
                    /\ counters' = [counters EXCEPT !.contactCount = @ + 1]
            /\ main' = [main EXCEPT !.pc = IF again THEN "contacts" ELSE "batch"]
            /\ ret' = [op |-> "contact", entry |-> c]
    /\ UNCHANGED <<messages, processed, workers, config, probe, files>>

NewWorker(msg, idx) == [pc |-> "lookup", msg |-> msg, idx |-> idx, doc |-> <<>>, why |-> ""]

\* messages.slice(i, i + batchSize) is mapped to concurrent processMessage calls
StartGroup ==
    /\ main.pc = "batch"
    /\ main.more
    /\ \E k \in 1..Min(config.batchSize, Left(budget, "msgs")) :
        /\ \E ms \in [1..k -> MsgChoices] :
             workers' = [i \in 1..k |-> NewWorker(ms[i], main.msgBase + i - 1)]
        /\ budget' = Take(budget, "msgs", k)
    /\ main' = [main EXCEPT !.pc = "group"]
    /\ ret' = IF ret.op = "contact" THEN ret ELSE NoRet
    /\ UNCHANGED <<messages, processed, contacts, counters, config, probe, files>>

\* variant: the group is left without waiting for its calls
NotAwaited(w) == TRUE

Settled(w) == w.pc \in {"done", "failed"}

\* await Promise.allSettled(batchPromises); a slice shorter than batchSize
\* was the last one
JoinGroup ==
    /\ main.pc = "group"
    /\ \A i \in DOMAIN workers : Settled(workers[i])
    /\ LET k == Len(workers)
           ok == Cardinality({i \in DOMAIN workers : workers[i].pc = "done"})
       IN  main' = [main EXCEPT !.pc = "batch", !.msgBase = @ + k,
                                !.more = (k = config.batchSize),
                                !.itemsOk = @ + ok, !.itemsFailed = @ + (k - ok)]
    /\ workers' = <<>>
    /\ UNCHANGED <<messages, processed, contacts, counters, ret, config, budget, probe, files>>

\* the batch loop is over: processMessages returns and processedItems++ runs;
\* the change's statuses[], if it has one, comes next
EndMessages ==
    /\ main.pc = "batch"
    /\ \E hasStatuses \in BOOLEAN :
         main' = [main EXCEPT !.pc = IF hasStatuses THEN "statuses" ELSE "loop",
                              !.processedItems = @ + 1, !.display = NoStr,
                              !.msgBase = 0, !.more = FALSE, !.statusIndex = 0]
    /\ UNCHANGED <<messages, processed, contacts, counters, workers, ret, config,
                   budget, probe, files>>

-----------------------------------------------------------------------------
(* processMessage: one action per storage operation whose effect another   *)
(* call can observe, each with the synchronous code that follows it.        *)

\* variant: the failure of one call also fails the calls still running
AbortGroup(ws, i, why) ==
    [k \in DOMAIN ws |->
        IF k = i \/ ws[k].pc \notin {"done", "failed"}
        THEN [ws[k] EXCEPT !.pc = "failed", !.why = why]
        ELSE ws[k]]

\* processMessages' catch around one processMessage: only that call fails
OnMessageError(ws, i, why) == [ws EXCEPT ![i].pc = "failed", ![i].why = why]

Running(i, pc) == main.pc = "group" /\ i \in DOMAIN workers /\ workers[i].pc = pc

FailWorker(i, why) ==
    /\ workers' = OnMessageError(workers, i, why)
    /\ counters' = [counters EXCEPT !.errorCount = @ + 1]

\* the values originalPayload._id can turn out to have when a call reads it
PidChoices(msg, display) ==
    IF main.payloadId # Unread THEN {main.payloadId}
    ELSE IF ReadsPayloadId(msg, BusinessNumbers(display)) THEN PayloadIds
    ELSE {Unread}

\* Message.findOne({ messageId }), then content, direction and waId checks
WorkerLookup(i) ==
    /\ Running(i, "lookup")
    /\ \E fault \in FaultChoices, rnd \in BOOLEAN :
        LET w == workers[i]
            found == FindIndex(messages, w.msg.id) # 0
        IN  /\ budget' = Spend(budget, fault)
            /\ IF fault THEN FailWorker(i, "storage") /\ UNCHANGED main
               ELSE IF found
               THEN /\ workers' = [workers EXCEPT ![i].pc = "done", ![i].why = "existing"]
                    /\ UNCHANGED <<counters, main>>
               ELSE \E pid \in PidChoices(w.msg, main.display) :
                      LET det == detectMessageDirection(w.msg, main.display, pid, rnd, NowMs)
                      IN  /\ main' = [main EXCEPT !.payloadId = pid]
                          /\ IF ~det.ok THEN FailWorker(i, "direction")
                             ELSE IF det.waId = NoStr \/ ~isValidWaId(det.waId)
                             THEN FailWorker(i, "waId")
                             ELSE /\ workers' = [workers EXCEPT
                                                   ![i].pc = "ensure",
                                                   ![i].doc = NewMessage(w.msg, det, pid)]
                                  /\ UNCHANGED counters
    /\ UNCHANGED <<messages, processed, contacts, ret, config, probe, files>>

\* await this.ensureContactExists(...): its errors are swallowed
WorkerEnsure(i) ==
    /\ Running(i, "ensure")
    /\ \E fault \in FaultChoices :
        /\ budget' = Spend(budget, fault)
        /\ contacts' = IF fault THEN contacts
                       ELSE ensureContactExists(contacts, workers[i].doc.waId)
    /\ workers' = [workers EXCEPT ![i].pc = "save"]
    /\ UNCHANGED <<messages, processed, counters, main, ret, config, probe, files>>

\* the storage operations from message.save() to messageCount++
SaveFaultPoints == {"save", "processed", "resave"}

\* await message.save(): validation, pre-save hook, insert under the unique
\* index; then ProcessedMessage.create(...), whose errors are ignored, and the
\* second message.save() (processing time) with messageCount++.  Nothing
\* reads what the last two write, so they are taken with the first.
WorkerSave(i) ==
    /\ Running(i, "save")
    /\ \E faultAt \in {"none"} \cup (IF budget.faults > 0 THEN SaveFaultPoints ELSE {}) :
        LET doc == workers[i].doc
        IN  /\ budget' = Spend(budget, faultAt # "none")
            /\ IF faultAt = "save"
               THEN FailWorker(i, "storage") /\ UNCHANGED <<messages, processed>>
               ELSE IF ~ValidMessage(doc)
               THEN FailWorker(i, "validation") /\ UNCHANGED <<messages, processed>>
               ELSE IF DuplicateKey(messages, doc.messageId)
               THEN FailWorker(i, "duplicate") /\ UNCHANGED <<messages, processed>>
               ELSE /\ messages' = Append(messages, PreSave(doc))
                    /\ processed' = IF faultAt = "processed" THEN processed
                                    ELSE processed \cup {doc.messageId}
                    /\ IF faultAt = "resave"
                       THEN FailWorker(i, "storage")
                       ELSE /\ workers' = [workers EXCEPT ![i].pc = "contact"]
                            /\ counters' = [counters EXCEPT !.messageCount = @ + 1]
    /\ UNCHANGED <<contacts, main, ret, config, probe, files>>

\* await this.updateContactLastMessage(...): its errors are swallowed
WorkerContact(i) ==
    /\ Running(i, "contact")
    /\ \E fault \in FaultChoices :
        LET w == workers[i]
        IN  /\ budget' = Spend(budget, fault)
            /\ contacts' =
                 IF fault THEN contacts
                 ELSE updateContactLastMessage(
                        contacts, w.doc.waId,
                        generateMessagePreview(extractMessageContent(w.msg).text),
                        w.doc.timestamp,
                        IF w.doc.type = "outgoing" THEN 0 ELSE 1)
    /\ workers' = [workers EXCEPT ![i].pc = "done", ![i].why = "stored"]
    /\ UNCHANGED <<messages, processed, counters, main, ret, config, probe, files>>

WorkerStep(i) ==
    \/ WorkerLookup(i)
    \/ WorkerEnsure(i)
    \/ WorkerSave(i)
    \/ WorkerContact(i)

-----------------------------------------------------------------------------
(* processMessageStatuses and updateMessageStatus.  Status events run one   *)
(* at a time and nothing runs beside them, so one attempt of                 *)
(* updateMessageStatus is one action; faultAt names the storage operation    *)
(* of the attempt that fails, if one does.                                   *)

\* variant: the document named by meta_msg_id is preferred
LookupMetaFirst(store, ev) ==
    IF ev.meta # "" /\ FindIndex(store, ev.meta) # 0 THEN FindIndex(store, ev.meta)
    ELSE FindIndex(store, ev.id)

\* findOne by id, then by meta_msg_id: index of the document, 0 when none
LookupStatusTarget(store, ev) ==
    IF FindIndex(store, ev.id) # 0 THEN FindIndex(store, ev.id)
    ELSE IF ev.meta # "" THEN FindIndex(store, ev.meta)
    ELSE 0

\* variant: the reset is made for incoming messages instead
ResetsUnreadOfIncoming(doc, ev) == ev.status = "read" /\ doc.type = "incoming"

\* the read of an outgoing message resets the contact's unread count
ResetsUnread(doc, ev) == ev.status = "read" /\ doc.type = "outgoing"

\* the storage operations an attempt runs after its lookup
FaultPoints(store, ev) ==
    LET idx == LookupStatusTarget(store, ev)
    IN  {"find"}
        \cup (IF idx = 0 /\ PlaceholderWanted(ev) THEN {"save"} ELSE {})
        \cup (IF idx = 0 /\ PlaceholderWanted(ev) /\ ValidMessage(PlaceholderMessage(ev))
             THEN {"duplicate"} ELSE {})
        \cup (IF idx # 0 THEN {"save"} ELSE {})
        \cup (IF idx # 0 /\ ResetsUnread(store[idx], ev) THEN {"contact"} ELSE {})

\* one attempt: [threw, outcome, messages, processed, contacts, counters]
updateMessageStatus(ev, faultAt) ==
    LET idx == LookupStatusTarget(messages, ev)
        same == [threw |-> FALSE, outcome |-> "", messages |-> messages,
                 processed |-> processed, contacts |-> contacts, counters |-> counters]
        threw == [same EXCEPT !.threw = TRUE, !.outcome = "threw"]
        counted == [counters EXCEPT !.statusCount = @ + 1]
    IN  IF faultAt = "find" THEN threw
        ELSE IF idx = 0
        THEN IF PlaceholderWanted(ev)
             THEN LET ph == PlaceholderMessage(ev)
                  IN  IF faultAt = "save" \/ ~ValidMessage(ph)
                         \/ DuplicateKey(messages, ph.messageId)
                      THEN threw
                      ELSE IF faultAt = "duplicate"
                      THEN \* another processor has applied the same event since
                           \* the lookup: its placeholder is there, the save fails
                           [threw EXCEPT
                              !.messages = Append(messages, PreSave(ph)),
                              !.processed = processed \cup {ph.messageId}]
                      ELSE [same EXCEPT
                              !.outcome = "placeholder",
                              !.messages = Append(messages, PreSave(ph)),
                              !.processed = processed \cup {ph.messageId},
                              !.counters = [counted EXCEPT !.messageCount = @ + 1]]
             ELSE [same EXCEPT !.outcome = "dropped", !.counters = counted]
        ELSE LET doc == ApplyStatus(messages[idx], ev)
                 reset == ResetsUnread(messages[idx], ev)
                 cs == IF reset THEN ResetUnread(contacts, messages[idx].waId) ELSE contacts
             IN  IF reset /\ faultAt = "contact" THEN threw
                 ELSE IF faultAt = "save" \/ ~ValidMessage(doc)
                 THEN [threw EXCEPT !.contacts = cs]
                 ELSE [same EXCEPT
                         !.outcome = "updated",
                         !.messages = [messages EXCEPT
                                         ![idx] = SaveTracked(@, PreSave(doc))],
                         !.contacts = cs,
                         !.counters = counted]

\* the next element of statuses[] is taken
NextStatus ==
    /\ main.pc = "statuses"
    /\ Left(budget, "statuses") > 0
    /\ \E ev \in StatusChoices :
         main' = [main EXCEPT !.pc = "attempt", !.ev = ev, !.retryCount = 0]
    /\ budget' = Take(budget, "statuses", 1)
    /\ UNCHANGED <<messages, processed, contacts, counters, workers, ret, config, probe,
                   files>>

\* variant: every wait is one interval long
FixedDelay(retryCount) == RetryInterval

\* setTimeout(resolve, 1000 * retryCount): the wait after retryCount failures
RetryDelay(retryCount) == RetryInterval * retryCount

\* variant: the last failure leaves processMessageStatuses and reaches the
\* catch of the entry loop
RethrowStatus(m) ==
    [m EXCEPT !.pc = "loop", !.entryOpen = FALSE, !.statusIndex = 0,
              !.ev = NoEvent, !.retryCount = 0, !.itemsFailed = @ + 1,
              !.errors = Append(@, [index |-> m.entryIndex])]

\* variant: the last failure is followed by a wait and one more attempt
RetryAgain(m) ==
    [m EXCEPT !.pc = "wait", !.retryCount = maxRetries - 1]

\* retryCount === maxRetries: the failure is logged and the for loop goes on
GiveUpStatus(m) ==
    [m EXCEPT !.pc = "statuses", !.statusIndex = @ + 1,
              !.ev = NoEvent, !.retryCount = 0, !.itemsFailed = @ + 1]

\* the body of the retry loop: one updateMessageStatus call and its catch
StatusAttempt ==
    /\ main.pc = "attempt"
    /\ \E faultAt \in {"none"} \cup
                      (IF budget.faults > 0 THEN FaultPoints(messages, main.ev) ELSE {}) :
        LET r == updateMessageStatus(main.ev, faultAt)
            idx == LookupStatusTarget(messages, main.ev)
            n == main.retryCount + 1
        IN  /\ budget' = Spend(budget, faultAt # "none")
            /\ messages' = r.messages
            /\ processed' = r.processed
            /\ contacts' = r.contacts
            /\ counters' = r.counters
            /\ ret' = [op |-> "status", ev |-> main.ev, outcome |-> r.outcome,
                       attempt |-> n,
                       again |-> (/\ ret.op = "status" /\ ret.outcome = "updated"
                                  /\ ret.ev = main.ev),
                       unreadBefore |->
                          IF idx # 0 /\ HasContact(contacts, messages[idx].waId)
                          THEN contacts[messages[idx].waId].unreadCount ELSE -1]
            /\ main' =
                 IF ~r.threw
                 THEN [main EXCEPT !.pc = "statuses", !.statusIndex = @ + 1,
                                   !.ev = NoEvent, !.retryCount = 0, !.itemsOk = @ + 1]
                 ELSE IF n = config.maxRetries
                 THEN GiveUpStatus(main)
                 ELSE [main EXCEPT !.pc = "wait", !.retryCount = n,
                                   !.delay = RetryDelay(n)]
    /\ UNCHANGED <<workers, config, probe, files>>

\* setTimeout(resolve, 1000 * retryCount) fires
StatusWait ==
    /\ main.pc = "wait"
    /\ main' = [main EXCEPT !.pc = "attempt", !.delay = 0]
    /\ UNCHANGED <<messages, processed, contacts, counters, workers, ret, config,
                   budget, probe, files>>

\* statuses[] is exhausted: processMessageStatuses returns, processedItems++ runs
EndStatuses ==
    /\ main.pc = "statuses"
    /\ main' = [main EXCEPT !.pc = "loop", !.statusIndex = 0,
                            !.processedItems = @ + 1]
    /\ ret' = NoRet
    /\ UNCHANGED <<messages, processed, contacts, counters, workers, config,
                   budget, probe, files>>

-----------------------------------------------------------------------------
(* The pipeline *)

Next ==
    \/ ReceivePayload
    \/ BeginChange
    \/ ProcessContact
    \/ StartGroup
    \/ \E i \in DOMAIN workers : WorkerStep(i)
    \/ JoinGroup
    \/ EndMessages
    \/ NextStatus
    \/ StatusAttempt
    \/ StatusWait
    \/ EndStatuses
    \/ EndPayload

Spec == Init /\ [][Next]_vars

SpecFaults == InitFaults /\ [][Next]_vars

\* the same pipeline fed entries with sibling changes: a change comes after
\* another has been processed, its stores and counters as that one left them
InitSiblings ==
    /\ InitStores
    /\ config = [batchSize |-> batchSize, maxRetries |-> maxRetries]
    /\ budget = [Budget(0, "full") EXCEPT !.changes = MaxSiblingChanges,
                                          !.statuses = MaxSiblingStatuses]
    /\ probe = NoProbe
    /\ files = NoFiles

SpecSiblings == InitSiblings /\ [][Next]_vars

\* max: [9999, 'Unread count cannot exceed 9999'] of the Contact schema
MaxUnread == 9999

\* the Contact of Ravi after MaxUnread incoming messages of Ravi have been
\* stored and none was read
BacklogContacts ==
    LET cs == updateContactLastMessage(ensureContactExists(<<>>, Ravi), Ravi,
                                       generateMessagePreview(TxtHi), ParseDate(TsA), 1)
    IN  [cs EXCEPT ![Ravi].unreadCount = MaxUnread]

\* the pipeline when that backlog is in the stores; the Messages of the
\* backlog have ids that no input of the run carries and are left out
InitBacklog ==
    /\ messages = <<>>
    /\ processed = {}
    /\ contacts = BacklogContacts
    /\ counters = NoCounters
    /\ main = Idle
    /\ workers = <<>>
    /\ ret = NoRet
    /\ config = [batchSize |-> batchSize, maxRetries |-> maxRetries]
    /\ budget = [Budget(0, "files") EXCEPT !.items = MaxBacklogItems,
                                           !.changes = MaxSiblingChanges]
    /\ probe = NoProbe
    /\ files = NoFiles

SpecBacklog == InitBacklog /\ [][Next]_vars

\* the pipeline with a storage of which any operation may fail, every one
\* included
InitStorm ==
    /\ InitStores
    /\ config = [batchSize |-> batchSize, maxRetries |-> maxRetries]
    /\ budget = [Budget(MaxFaults, "storm") EXCEPT !.items = MaxStormItems,
                                                  !.changes = MaxStormChanges]
    /\ probe = NoProbe
    /\ files = NoFiles

\* the event loop runs a continuation or a timer that is ready
SpecStorm == InitStorm /\ [][Next]_vars /\ WF_vars(Next)

-----------------------------------------------------------------------------
(* detectMessageDirection on its own, over every combination of endpoints   *)

Numbers == {NoStr, Biz0, Biz1, DispNum, Ravi, RaviLocal, RaviPlus, ShortNum, Neha}

DetectInputs ==
    { Msg("wamid.A", from, to, "text", TxtHi, ts, "") :
        from \in Numbers, to \in Numbers, ts \in {TsA, NoStr} }

InitDetect ==
    /\ InitStores
    /\ config = [batchSize |-> 10, maxRetries |-> maxRetries]
    /\ budget = [payloads |-> 0, changes |-> 0, items |-> 0, msgs |-> 0,
                 statuses |-> 0, contacts |-> 0, faults |-> 0, inputs |-> "full"]
    /\ probe = NoProbe
    /\ files = NoFiles

Detect ==
    /\ probe.op = "none"
    /\ \E msg \in DetectInputs, display \in Displays, pid \in PayloadIds, rnd \in BOOLEAN :
         probe' = [op |-> "detect", msg |-> msg, display |-> display, pid |-> pid,
                   rnd |-> rnd,
                   result |-> detectMessageDirection(msg, display, pid, rnd, NowMs)]
    /\ UNCHANGED <<messages, processed, contacts, counters, main, workers, ret,
                   config, budget, files>>

NextDetect == Detect

SpecDetect == InitDetect /\ [][NextDetect]_vars

-----------------------------------------------------------------------------
(* processJsonFiles: the .json files of a directory, one processPayload     *)
(* call for each, every file inside its own try/catch.                      *)

MaxFiles == 2       \* .json files in the directory
MaxFileItems == 1   \* messages, status events and contacts[] entries of all files

\* what a file holds: a payload of one of the shapes, or text that is not JSON
FileKinds == PayloadShapes \cup {"notJson"}

\* file names of the directory, as sequences of characters
FileB == <<"b", ".", "j", "s", "o", "n">>
FileA1 == <<"a", "1", ".", "j", "s", "o", "n">>
FileAStatus == <<"a", "s", "t", "a", "t", "u", "s", ".", "j", "s", "o", "n">>
FileStatus == <<"S", "t", "a", "t", "u", "s", ".", "j", "s", "o", "n">>
FileTxt == <<"b", ".", "t", "x", "t">>

FileNames == {FileB, FileA1, FileAStatus, FileStatus, FileTxt}

\* String.prototype.toLowerCase, on the characters of the names
ToLower(c) == IF c = "S" THEN "s" ELSE c

LowerCase(s) == [i \in 1..Len(s) |-> ToLower(s[i])]

\* String.prototype.includes
IncludesText(s, sub) ==
    \E i \in 1..(Len(s) - Len(sub) + 1) : SubSeq(s, i, i + Len(sub) - 1) = sub

\* String.prototype.endsWith
EndsWith(s, suffix) ==
    Len(s) >= Len(suffix) /\ SubSeq(s, Len(s) - Len(suffix) + 1, Len(s)) = suffix

\* file.endsWith('.json')
IsJsonFile(name) == EndsWith(name, <<".", "j", "s", "o", "n">>)

\* a.toLowerCase().includes('status')
IsStatusFile(name) == IncludesText(LowerCase(name), <<"s", "t", "a", "t", "u", "s">>)

\* the collation order of the characters of the names: punctuation, digits,
\* letters
Collation == <<".", "1", "a", "b", "j", "n", "o", "s", "t", "u", "x">>

Rank(c) == CHOOSE i \in 1..Len(Collation) : Collation[i] = ToLower(c)

\* the first position from n on at which a and b differ by the key, 0 if none
RECURSIVE FirstDiff(_, _, _, _)
FirstDiff(a, b, n, byRank) ==
    IF n > Len(a) \/ n > Len(b) THEN 0
    ELSE IF (IF byRank THEN Rank(a[n]) # Rank(b[n]) ELSE a[n] # b[n]) THEN n
    ELSE FirstDiff(a, b, n + 1, byRank)

\* a.localeCompare(b): the letters decide whatever their case, then the
\* shorter name comes first, then lower case comes before upper case
localeCompare(a, b) ==
    LET p == FirstDiff(a, b, 1, TRUE)
        q == FirstDiff(a, b, 1, FALSE)
    IN  IF p # 0 THEN (IF Rank(a[p]) < Rank(b[p]) THEN -1 ELSE 1)
        ELSE IF Len(a) # Len(b) THEN (IF Len(a) < Len(b) THEN -1 ELSE 1)
        ELSE IF q = 0 THEN 0
        ELSE IF ToLower(a[q]) = a[q] THEN -1 ELSE 1

\* variant: the names are compared whatever they contain
CompareNames(a, b) == localeCompare(a, b)

\* the comparator of the sort: status files go last, then by name
CompareFiles(a, b) ==
    IF IsStatusFile(a) /\ ~IsStatusFile(b) THEN 1
    ELSE IF ~IsStatusFile(a) /\ IsStatusFile(b) THEN -1
    ELSE localeCompare(a, b)

\* jsonFiles.sort(...) of a set of distinct names
RECURSIVE SortFiles(_)
SortFiles(S) ==
    IF S = {} THEN <<>>
    ELSE LET first == CHOOSE a \in S : \A b \in S \ {a} : CompareFiles(a, b) < 0
         IN  <<first>> \o SortFiles(S \ {first})

\* what fs.readdirSync can return: FileTxt and up to MaxFiles .json files
Directories ==
    {D \in SUBSET FileNames :
        FileTxt \in D /\ Cardinality({f \in D : IsJsonFile(f)}) <= MaxFiles}

\* the directory has been listed, filtered and sorted; the stores are empty
InitFiles ==
    /\ InitStores
    /\ config = [batchSize |-> batchSize, maxRetries |-> maxRetries]
    /\ budget = [Budget(0, "files") EXCEPT !.items = MaxFileItems,
                                           !.changes = MaxSiblingChanges]
    /\ probe = NoProbe
    /\ \E dir \in Directories :
         LET names == SortFiles({f \in dir : IsJsonFile(f)})
         IN  \E list \in [1..Len(names) -> FileKinds] :
               files = [pc |-> "loop", dir |-> dir, names |-> names, list |-> list,
                        index |-> 1, results |-> <<>>]

\* variant: a file that fails ends the loop
AbortFiles(f) ==
    [f EXCEPT !.pc = "return", !.results = Append(@, [index |-> f.index, success |-> FALSE])]

\* catch (fileError): the file is recorded as failed and the loop goes on
OnFileError(f) ==
    [f EXCEPT !.pc = "loop", !.index = @ + 1,
              !.results = Append(@, [index |-> f.index, success |-> FALSE])]

\* the next file is read and parsed; processPayload is called with its payload
ReadFile ==
    /\ files.pc = "loop"
    /\ files.index <= Len(files.list)
    /\ main.pc = "idle"
    /\ IF files.list[files.index] = "notJson"
       THEN /\ files' = OnFileError(files)
            /\ counters' = [counters EXCEPT !.errorCount = @ + 1]
            /\ ret' = [op |-> "file", outcome |-> "threw"]
            /\ UNCHANGED main
       ELSE /\ EnterPayload(files.list[files.index])
            /\ files' = [files EXCEPT !.pc = "payload"]
    /\ UNCHANGED <<messages, processed, contacts, workers, config, budget, probe>>

\* processPayload has returned or thrown: results.push(...)
FileDone ==
    /\ files.pc = "payload"
    /\ main.pc = "idle"
    /\ IF ret.outcome = "returned"
       THEN /\ files' = [files EXCEPT
                           !.pc = "loop", !.index = @ + 1,
                           !.results = Append(@, [index |-> files.index,
                                                  success |-> TRUE])]
            /\ UNCHANGED counters
       ELSE /\ files' = OnFileError(files)
            /\ counters' = [counters EXCEPT !.errorCount = @ + 1]
    /\ ret' = [op |-> "file",
               outcome |-> IF ret.outcome = "returned" THEN "returned" ELSE "threw"]
    /\ UNCHANGED <<messages, processed, contacts, main, workers, config, budget, probe>>

Successes(results) == Cardinality({k \in 1..Len(results) : results[k].success})

\* the loop is over: the summary is returned
FilesReturn ==
    /\ files.pc \in {"loop", "return"}
    /\ files.pc = "loop" => files.index > Len(files.list)
    /\ files' = [files EXCEPT !.pc = "done"]
    /\ ret' = [op |-> "files", totalFiles |-> Len(files.list),
               successful |-> Successes(files.results),
               failed |-> Len(files.results) - Successes(files.results)]
    /\ UNCHANGED <<messages, processed, contacts, counters, main, workers, config,
                   budget, probe>>

NextFiles ==
    \/ ReadFile
    \/ FileDone
    \/ FilesReturn
    \/ BeginChange
    \/ ProcessContact
    \/ StartGroup
    \/ \E i \in DOMAIN workers : WorkerStep(i)
    \/ JoinGroup
    \/ EndMessages
    \/ NextStatus
    \/ StatusAttempt
    \/ StatusWait
    \/ EndStatuses
    \/ EndPayload

SpecFiles == InitFiles /\ [][NextFiles]_vars

-----------------------------------------------------------------------------
(* Properties of the pipeline *)

StoredIds(store) == {store[j].messageId : j \in 1..Len(store)}

CountOf(store, id) == Cardinality({j \in 1..Len(store) : store[j].messageId = id})

\* the worker whose step this is
Steps(i) == i \in DOMAIN workers /\ i \in DOMAIN workers' /\ workers'[i] # workers[i]

(* C1: when processMessage runs for a message id that is already stored,   *)
(* whatever the from / to / content of the second delivery, the call ends   *)
(* at its lookup: exactly one Message with that id exists afterwards, the   *)
(* Message store is the one the earlier call left and no Contact changes.   *)
C1_SecondCallIsNoOp ==
    [][\A i \in DOMAIN workers :
         (Running(i, "lookup") /\ Steps(i) /\ workers[i].msg.id \in StoredIds(messages))
         => /\ messages' = messages
            /\ contacts' = contacts
            /\ CountOf(messages', workers[i].msg.id) = 1
            /\ workers'[i].pc = "done"]_vars

\* a call that ran alone, after the group that stored its id as an outgoing
\* message had finished, delivered the id as an incoming message and returned:
\* the stored Message is still the outgoing one and nothing is unread
C1_Witness ==
    /\ Len(workers) = 1
    /\ workers[1].pc = "done"
    /\ workers[1].why = "existing"
    /\ workers[1].msg.from = Ravi
    /\ \E j \in 1..Len(messages) :
         /\ messages[j].messageId = workers[1].msg.id
         /\ messages[j].type = "outgoing"
         /\ HasContact(contacts, messages[j].waId)
         /\ contacts[messages[j].waId].unreadCount = 0

C3_EveryMessageHasContact ==
    main.pc \in {"idle", "loop", "batch", "statuses"}
    => \A j \in 1..Len(messages) : HasContact(contacts, messages[j].waId)

(* C4: for a message whose `from` is a known business number (the change's *)
(* display_phone_number or a configured one) detectMessageDirection returns *)
(* isOutgoing = true with confidence 100, whatever `to` is.                 *)
C4_BusinessSenderIsOutgoing ==
    (/\ probe.op = "detect"
     /\ probe.msg.from # NoStr
     /\ Includes(BusinessNumbers(probe.display), probe.msg.from))
    => /\ probe.result.ok
       /\ probe.result.isOutgoing
       /\ probe.result.confidence = 100

(* C5: a message without `from`, without `to` and in a payload without _id  *)
(* is rejected: its processMessage call fails on the direction, stores no   *)
(* Message and touches no Contact, the error is counted, and the failed     *)
(* call is never run again.                                                  *)
C5_UnresolvedIsRejected ==
    [][\A i \in DOMAIN workers :
         /\ (/\ Running(i, "lookup") /\ Steps(i)
             /\ workers[i].msg.from = NoStr /\ workers[i].msg.to = NoStr
             /\ workers[i].msg.id \notin StoredIds(messages)
             /\ main'.payloadId = "")
            => /\ workers'[i].pc = "failed"
               /\ workers'[i].why = "direction"
               /\ messages' = messages
               /\ contacts' = contacts
               /\ counters'.errorCount = counters.errorCount + 1
         /\ (workers[i].pc = "failed" /\ i \in DOMAIN workers')
            => workers'[i] = workers[i]]_vars

\* such a call has failed beside one that stored its message
C5_Witness ==
    \E i, k \in DOMAIN workers :
        /\ workers[i].why = "direction"
        /\ workers[i].msg.from = NoStr /\ workers[i].msg.to = NoStr
        /\ main.payloadId = ""
        /\ counters.errorCount = 1
        /\ workers[k].why = "stored"
        /\ StoredIds(messages) = {workers[k].msg.id}

\* one call of updateMessageStatus for main.ev returns or throws in this step
Attempts == main.pc = "attempt" /\ main'.pc # "attempt"

\* the placeholder text as the documentation prints it: with an em dash
\* (U+2014, written "--" here) where the code has a hyphen
TxtDocumentedPlaceholder == <<"[Message content not available ", "--", " status only]">>

IsPlaceholderFor(doc, ev, text) ==
    /\ doc.messageId = ev.id
    /\ doc.status = ev.status
    /\ doc.type = "outgoing"
    /\ doc.messageType = "text"
    /\ doc.text = text

Storable(ev) ==
    /\ Len(ev.id) >= 3
    /\ ev.status \in {"sending", "sent", "delivered", "read", "pending", "queued"}
    /\ LeadingDigits(ev.timestamp) # <<>>
    /\ LET r == formatPhoneNumber(ev.recipient)
       IN  Len(r) >= 10 /\ Len(r) <= 15 /\ \A n \in 1..Len(r) : IsDigit(r[n])

C7_FailedForUnknownIsDropped ==
    [][(/\ Attempts
        /\ main.ev.status = "failed"
        /\ main.ev.id \notin StoredIds(messages)
        /\ main.ev.meta \notin StoredIds(messages))
       => /\ messages' = messages
          /\ contacts' = contacts
          /\ main'.pc = "statuses"
          /\ main'.itemsFailed = main.itemsFailed
          /\ counters'.errorCount = counters.errorCount]_vars

\* a failed event with a recipient_id was dropped at its first attempt while
\* the store held a Message
C7_Witness ==
    /\ ret.op = "status"
    /\ ret.outcome = "dropped"
    /\ ret.attempt = 1
    /\ ret.ev.status = "failed"
    /\ ret.ev.recipient # NoStr
    /\ Len(messages) > 0
    /\ ret.ev.id \notin StoredIds(messages)

(* C8: when a read status is applied to a stored outgoing Message, the      *)
(* Contact with the Message's waId has unreadCount = 0 afterwards.          *)
C8_ReadResetsUnread ==
    [][(/\ Attempts
        /\ main.ev.status = "read"
        /\ LookupStatusTarget(messages, main.ev) # 0
        /\ messages[LookupStatusTarget(messages, main.ev)].type = "outgoing")
       => LET waId == messages[LookupStatusTarget(messages, main.ev)].waId
          IN  HasContact(contacts', waId) => contacts'[waId].unreadCount = 0]_vars

\* the contact had unread messages when the read status was applied
C8_Witness ==
    /\ ret.op = "status"
    /\ ret.outcome = "updated"
    /\ ret.ev.status = "read"
    /\ ret.unreadBefore > 0
    /\ \E j \in 1..Len(messages) :
         /\ messages[j].messageId = ret.ev.id
         /\ messages[j].type = "outgoing"
         /\ messages[j].status = "read"
         /\ contacts[messages[j].waId].unreadCount = 0

\* the message is one processMessage stores when no storage operation fails:
\* its direction resolves to a valid waId and the document passes validation
WouldStoreAlone(w) ==
    LET pid == IF main.payloadId = Unread THEN "" ELSE main.payloadId
        det == detectMessageDirection(w.msg, main.display, pid, TRUE, NowMs)
    IN  /\ w.why # "storage"
        /\ det.ok
        /\ isValidWaId(det.waId)
        /\ ValidMessage(NewMessage(w.msg, det, pid))

(* C9: when the calls of a batch group have settled, every message of the   *)
(* group that is stored when processed alone has a Message in the store,    *)
(* whatever failed for the other messages of the array (direction, waId,    *)
(* validation, storage), and the loop goes on to the next slice.            *)
C9_FailureIsIsolated ==
    [][(main.pc = "group" /\ main'.pc # "group")
       => /\ \A i \in DOMAIN workers :
               WouldStoreAlone(workers[i]) => workers[i].msg.id \in StoredIds(messages)
          /\ main'.pc = "batch"
          /\ main'.more = (Len(workers) = config.batchSize)]_vars

\* with groups of one the first message of the array failed and the second,
\* in the next group, has been stored
C9_Witness ==
    /\ config.batchSize = 1
    /\ main.pc = "group"
    /\ main.msgBase = 1
    /\ main.itemsFailed = 1
    /\ Len(workers) = 1
    /\ workers[1].why = "stored"
    /\ workers[1].msg.id \in StoredIds(messages)

(* C10: the result of processPayload reports per-item outcomes: for a       *)
(* payload in which some messages or status events succeeded and some       *)
(* failed, processedItems is the number that succeeded and errors has one   *)
(* entry for each that failed.                                              *)
C10_ResultCountsItems ==
    (/\ ret.op = "payload"
     /\ ret.outcome = "returned"
     /\ ret.itemsOk >= 1
     /\ ret.itemsFailed >= 1)
    => /\ ret.processedItems = ret.itemsOk
       /\ Len(ret.errors) = ret.itemsFailed

\* the worker i finishes processMessage by writing the Contact aggregate
WritesContact(i) == Running(i, "contact") /\ Steps(i)

(* C11: every new message written for a waId increments the Contact's       *)
(* total message count by one: the step that ends a stored message leaves   *)
(* the Contact with one more total message than it had (0 when it did not   *)
(* exist), so n stored messages for a new waId give a count of n.           *)
C11_WriteCountsMessage ==
    [][\A i \in DOMAIN workers :
         WritesContact(i)
         => LET waId == workers[i].doc.waId
            IN  /\ HasContact(contacts', waId)
                /\ contacts'[waId].totalMessages
                     = GetOrDefault(contacts, waId).totalMessages + 1]_vars

\* unreadCount of the Contact waId, 0 while the Contact does not exist
UnreadOf(cs, waId) == IF HasContact(cs, waId) THEN cs[waId].unreadCount ELSE 0

(* C12: while the messages of a batch group are processed, in whatever      *)
(* order their calls interleave, the step that ends a stored incoming       *)
(* message adds exactly 1 to the unreadCount of its Contact, the step that  *)
(* ends a stored outgoing message adds 0, and no other step of a call       *)
(* changes any unreadCount: k incoming and j outgoing stored messages       *)
(* raise the count by k.                                                     *)
C12_UnreadCountsIncoming ==
    [][\A i \in DOMAIN workers :
         (main.pc = "group" /\ Steps(i))
         => \A waId \in DOMAIN contacts' :
              contacts'[waId].unreadCount
                = UnreadOf(contacts, waId)
                  + (IF /\ workers[i].pc = "contact"
                        /\ workers[i].doc.waId = waId
                        /\ workers[i].doc.type = "incoming"
                     THEN 1 ELSE 0)]_vars

\* two incoming messages of one waId were stored by the calls of one group
\* and the Contact counts both
C12_Witness ==
    /\ main.pc = "group"
    /\ Len(workers) = 2
    /\ \A i \in 1..2 : workers[i].pc = "done" /\ workers[i].why = "stored"
                       /\ workers[i].doc.type = "incoming"
    /\ workers[1].doc.waId = workers[2].doc.waId
    /\ workers[1].msg.id # workers[2].msg.id
    /\ contacts[workers[1].doc.waId].unreadCount = 2

\* the preview processMessage hands to updateContactLastMessage for worker w
PreviewOf(w) == generateMessagePreview(extractMessageContent(w.msg).text)

(* C13: once every message of a messages[] array has been stored, the       *)
(* Contact's lastMessage is the preview of the last message of its waId in  *)
(* payload order, also when the messages are processed by the concurrent    *)
(* calls of one batch group.                                                 *)
C13_LastMessageIsLastOfArray ==
    (/\ main.pc = "group"
     /\ \A i \in DOMAIN workers : workers[i].pc = "done" /\ workers[i].why = "stored")
    => \A i \in DOMAIN workers :
         (\A j \in DOMAIN workers : j > i => workers[j].doc.waId # workers[i].doc.waId)
         => contacts[workers[i].doc.waId].lastMessage = PreviewOf(workers[i])

\* the call of worker i saves a new Message
StoresMessage(i) ==
    Running(i, "save") /\ Steps(i) /\ Len(messages') = Len(messages) + 1

(* C14: a newly stored outgoing Message has the status the source supplied  *)
(* if it supplied one and sent otherwise; a newly stored incoming Message   *)
(* has status delivered whatever the source supplied.                        *)
C14_InitialStatus ==
    [][\A i \in DOMAIN workers :
         StoresMessage(i)
         => LET doc == messages'[Len(messages')]
                supplied == workers[i].msg.status
            IN  /\ doc.messageId = workers[i].msg.id
                /\ doc.type = "outgoing" /\ supplied # "" => doc.status = supplied
                /\ doc.type = "outgoing" /\ supplied = "" => doc.status = "sent"
                /\ doc.type = "incoming" => doc.status = "delivered"]_vars

\* an incoming message that came with status read is stored as delivered
C14_Witness ==
    \E i \in DOMAIN workers :
        /\ workers[i].pc = "done" /\ workers[i].why = "stored"
        /\ workers[i].msg.status = "read"
        /\ \E j \in 1..Len(messages) :
             /\ messages[j].messageId = workers[i].msg.id
             /\ messages[j].type = "incoming"
             /\ messages[j].status = "delivered"

(* C15: updateMessageStatus is attempted at most maxRetries = 3 times for   *)
(* a status event.  An attempt that succeeds ends the event; a failed       *)
(* attempt n < 3 is followed by a wait of n times the interval (1000 ms)    *)
(* and then attempt n + 1 of the same event; the third failure ends the     *)
(* event with no wait.                                                       *)
C15_BoundedRetries ==
    [][/\ Attempts
          => /\ ret'.attempt \in 1..maxRetries
             /\ ret'.attempt = 1 \/ (ret.op = "status" /\ ret.outcome = "threw"
                                     /\ ret.attempt = ret'.attempt - 1
                                     /\ ret.ev = ret'.ev)
             /\ ret'.outcome # "threw" => main'.pc = "statuses"
             /\ (ret'.outcome = "threw" /\ ret'.attempt < maxRetries)
                => main'.pc = "wait" /\ main'.delay = ret'.attempt * RetryInterval
             /\ (ret'.outcome = "threw" /\ ret'.attempt = maxRetries)
                => main'.pc = "statuses" /\ main'.delay = 0
       /\ main.pc = "wait"
          => main'.pc = "attempt" /\ main'.ev = main.ev /\ ret' = ret]_vars

\* the third attempt of an event has failed and the event is given up
C15_Witness ==
    /\ ret.op = "status"
    /\ ret.outcome = "threw"
    /\ ret.attempt = maxRetries
    /\ main.pc = "statuses"
    /\ main.delay = 0

\* the attempt of this step is the last failure of its event
GivesUp == Attempts /\ ret'.outcome = "threw" /\ ret'.attempt = maxRetries

(* C16: a status event whose every attempt fails does not abort the batch.  *)
(* Its last failure leaves the loop at the next element of statuses[]       *)
(* without recording an error for the change or counting one; from there    *)
(* the next event is attempted or the array ends and the change counts as   *)
(* processed; and processPayload throws only at its shape checks, before    *)
(* any change is processed.                                                  *)
C16_GivenUpEventIsSkipped ==
    [][/\ GivesUp
          => /\ main'.pc = "statuses"
             /\ main'.statusIndex = main.statusIndex + 1
             /\ main'.errors = main.errors
             /\ main'.processedItems = main.processedItems
             /\ counters'.errorCount = counters.errorCount
       /\ main.pc = "statuses"
          => \/ main'.pc = "attempt" /\ main'.statusIndex = main.statusIndex
             \/ /\ main'.pc = "loop"
                /\ main'.processedItems = main.processedItems + 1
                /\ main'.errors = main.errors
       /\ (ret'.op = "payload" /\ ret'.outcome = "threw") => main.pc = "idle"]_vars

\* the first event of the array was given up and the second, the only one
\* that stored anything, has been applied
C16_Witness ==
    /\ main.pc = "statuses"
    /\ main.statusIndex = 2
    /\ main.itemsFailed = 1
    /\ counters.errorCount = 0
    /\ ret.op = "status"
    /\ ret.outcome = "placeholder"
    /\ Len(messages) = 1
    /\ messages[1].messageId = ret.ev.id

(* C17: within one change of field messages the three arrays are processed  *)
(* in order.  While contacts[] is upserted no processMessage call exists    *)
(* and the loop goes from contacts[] only to the messages; calls are        *)
(* started only by the batch loop, which is never entered again from the    *)
(* statuses; a group is left only when each of its calls has stored its     *)
(* message or failed; and a status event is applied only when no call is    *)
(* left.                                                                     *)
C17_ContactsMessagesStatuses ==
    [][/\ main.pc = "contacts"
          => workers = <<>> /\ main'.pc \in {"contacts", "batch"}
       /\ main'.pc = "contacts" => main.pc \in {"loop", "contacts"}
       /\ main'.pc = "group" => main.pc \in {"batch", "group"}
       /\ main'.pc = "batch" => main.pc \in {"loop", "contacts", "group"}
       /\ (main.pc = "group" /\ main'.pc # "group")
          => /\ \A i \in DOMAIN workers : workers[i].pc \in {"done", "failed"}
             /\ workers' = <<>>
       /\ main.pc \in {"statuses", "attempt", "wait"}
          => workers = <<>> /\ main'.pc \in {"statuses", "attempt", "wait", "loop"}
       /\ contacts' # contacts
          => main.pc \in {"contacts", "group", "attempt"}
       /\ messages' # messages => main.pc \in {"group", "attempt"}]_vars

\* the only change begun so far had a contact that was upserted, a message
\* that was stored and a status event that has been applied to it
C17_Witness ==
    /\ budget.changes = MaxChanges - 1
    /\ counters.contactCount = 1
    /\ counters.messageCount = 1
    /\ main.pc = "statuses"
    /\ ret.op = "status"
    /\ ret.outcome = "updated"

(* C18: a payload whose metaData.entry is missing or is not an array makes  *)
(* processPayload fail before any Message or Contact is written; in         *)
(* processJsonFiles the file is recorded as failed, the loop goes on with   *)
(* the next file, and when the summary is returned every file of the        *)
(* directory has a result, successful exactly for the well-formed payloads. *)
C18_BadPayloadFailsItsFileOnly ==
    [][/\ (files.pc = "loop" /\ files'.pc = "payload"
           /\ files.list[files.index] \in {"noMetaData", "entryNotArray"})
          => /\ ret' = [op |-> "payload", outcome |-> "threw"]
             /\ main'.pc = "idle"
             /\ messages' = messages /\ processed' = processed
             /\ contacts' = contacts
       /\ (files.pc = "payload" /\ files'.pc # "payload")
          => /\ files'.pc = "loop"
             /\ files'.index = files.index + 1
             /\ files'.results
                  = Append(files.results,
                           [index |-> files.index,
                            success |-> files.list[files.index] = "ok"])
       /\ files'.pc = "done"
          => /\ Len(files.results) = Len(files.list)
             /\ \A k \in 1..Len(files.list) :
                  /\ files.results[k].index = k
                  /\ files.results[k].success = (files.list[k] = "ok")]_vars

\* the first file had an entry that is not an array and is recorded as failed;
\* the second was processed and stored a Message
C18_Witness ==
    /\ files.pc = "done"
    /\ files.list = <<"entryNotArray", "ok">>
    /\ files.results = <<[index |-> 1, success |-> FALSE], [index |-> 2, success |-> TRUE]>>
    /\ ret.op = "files" /\ ret.failed = 1 /\ ret.successful = 1
    /\ Len(messages) = 1

(* C19: when two messages with the same id are processed by the calls of    *)
(* one batch group and both pass the lookup before either saves, the call   *)
(* whose save comes second is treated as the already-exists case: it ends   *)
(* without an error, is not a failed message of the group and leaves        *)
(* errorCount as it was.                                                     *)
C19_LosingWriteIsSkipped ==
    [][\A i \in DOMAIN workers :
         (/\ Running(i, "save") /\ Steps(i)
          /\ ValidMessage(workers[i].doc)
          /\ workers[i].msg.id \in StoredIds(messages))
         => /\ workers'[i].pc \in {"contact", "done"}
            /\ counters'.errorCount = counters.errorCount
            /\ CountOf(messages', workers[i].msg.id) = 1]_vars

\* a status event that is not a failure and matches no stored Message is applied
AppliesUnmatched ==
    /\ Attempts
    /\ main.ev.status # "failed"
    /\ main.ev.id \notin StoredIds(messages)
    /\ main.ev.meta \notin StoredIds(messages)

C21_StatusTimeIsFirstWrite ==
    [][\A j \in 1..Len(messages) :
         /\ j <= Len(messages')
         /\ messages'[j].messageId = messages[j].messageId
         /\ messages[j].sentAt # NoDate => messages'[j].sentAt = messages[j].sentAt
         /\ messages[j].deliveredAt # NoDate
            => messages'[j].deliveredAt = messages[j].deliveredAt
         /\ messages[j].readAt # NoDate => messages'[j].readAt = messages[j].readAt]_vars

\* a status event is applied to the stored Message at index j
UpdatesMessage(j) ==
    /\ Attempts
    /\ ret'.outcome = "updated"
    /\ j = LookupStatusTarget(messages, main.ev)

(* C22: the status history of a Message is append-only: a status event      *)
(* applied to a found Message appends exactly one entry, from the status    *)
(* the Message had to the status of the event, and every other step leaves  *)
(* the history of every stored Message as it was.                           *)
C22_HistoryIsAppendOnly ==
    [][\A j \in 1..Len(messages) :
         /\ j <= Len(messages')
         /\ IF UpdatesMessage(j)
            THEN LET old == messages[j].status_updates
                     new == messages'[j].status_updates
                 IN  /\ Len(new) = Len(old) + 1
                     /\ SubSeq(new, 1, Len(old)) = old
                     /\ new[Len(new)].from_status = messages[j].status
                     /\ new[Len(new)].to_status = main.ev.status
            ELSE messages'[j].status_updates = messages[j].status_updates]_vars

C25_UnreadWithinBounds ==
    \A waId \in DOMAIN contacts :
        contacts[waId].unreadCount >= 0 /\ contacts[waId].unreadCount <= 9999

\* the save of a placeholder meets a Message that another writer stored with
\* the same id after the lookup of this call
PlaceholderLosesRace ==
    /\ Attempts
    /\ main.ev.id \notin StoredIds(messages)
    /\ main.ev.id \in StoredIds(messages')
    /\ ret'.outcome = "threw"

(* C26: a duplicate-key error raised while a placeholder is saved is        *)
(* ignored like a duplicate message: the attempt is not a failed one, the   *)
(* status event is not retried and is not counted as failed, and the        *)
(* Message the other writer stored stays as it is.                          *)
C26_PlaceholderDuplicateIsIgnored ==
    [][PlaceholderLosesRace
       => /\ main'.pc = "statuses"
          /\ main'.retryCount = 0
          /\ main'.itemsFailed = main.itemsFailed]_vars

\* the loop over statuses[] is at work
InStatuses == main.pc \in {"statuses", "attempt", "wait"}

(* C27: the events of a statuses[] array are applied strictly in array      *)
(* order and the last one wins.  An event is taken from the array only when *)
(* the event before it has succeeded or failed its last retry; an event     *)
(* applied to a found Message sets that Message's status to its own status, *)
(* also when this moves the Message back (read to delivered); a placeholder *)
(* carries the status of its event; and no other step of the loop changes   *)
(* the status of a stored Message.                                          *)
C27_ArrayOrderLastEventWins ==
    [][/\ (main'.ev # NoEvent /\ main'.ev # main.ev)
          => /\ main.pc = "statuses"
             /\ main.ev = NoEvent
             /\ main'.statusIndex = main.statusIndex
             /\ ret.op = "status"
                  => (ret.outcome # "threw" \/ ret.attempt = maxRetries)
       /\ (Attempts /\ ret'.outcome # "threw")
          => main'.statusIndex = main.statusIndex + 1
       /\ InStatuses
          => \A j \in DOMAIN messages :
               messages'[j].status =
                  IF UpdatesMessage(j) THEN main.ev.status ELSE messages[j].status
       /\ (Attempts /\ ret'.outcome = "placeholder")
          => messages'[Len(messages')].status = main.ev.status]_vars

\* a Message that was read has been moved back to delivered by the event
\* that came after the read in the array
C27_Witness ==
    /\ ret.op = "status"
    /\ ret.outcome = "updated"
    /\ ret.ev.status = "delivered"
    /\ \E j \in DOMAIN messages :
         /\ messages[j].messageId = ret.ev.id
         /\ messages[j].status = "delivered"
         /\ messages[j].readAt # NoDate

\* every stored Message but the one at index i is left as it was
OnlyTouches(i) ==
    /\ Len(messages') = Len(messages)
    /\ \A j \in DOMAIN messages : j # i => messages'[j] = messages[j]

(* C28: updateMessageStatus looks a Message up by the event's id first and  *)
(* by meta_msg_id only when no Message has that id.  When a Message has the *)
(* id, an attempt touches no other Message, also not the one meta_msg_id    *)
(* names, and an update lands on it; when only meta_msg_id names a Message, *)
(* the update lands on that Message and no placeholder is created.          *)
C28_IdBeforeMetaMsgId ==
    [][Attempts
       => LET byId == FindIndex(messages, main.ev.id)
              byMeta == IF main.ev.meta # "" THEN FindIndex(messages, main.ev.meta) ELSE 0
          IN  /\ byId # 0
                 => /\ OnlyTouches(byId)
                    /\ ret'.outcome = "updated"
                         => messages'[byId].status = main.ev.status
              /\ (byId = 0 /\ byMeta # 0)
                 => /\ OnlyTouches(byMeta)
                    /\ ret'.outcome # "placeholder"
                    /\ ret'.outcome = "updated"
                         => messages'[byMeta].status = main.ev.status]_vars

\* an event whose id and meta_msg_id name two stored Messages has been
\* applied: the Message with the id carries the event's time, the other not
C28_Witness ==
    /\ ret.op = "status"
    /\ ret.outcome = "updated"
    /\ ret.ev.meta # ""
    /\ \E i, m \in DOMAIN messages :
         /\ i # m
         /\ messages[i].messageId = ret.ev.id
         /\ messages[m].messageId = ret.ev.meta
         /\ messages[i].sentAt = ParseDate(ret.ev.timestamp)
         /\ messages[m].sentAt # ParseDate(ret.ev.timestamp)

\* `number` is one of the business numbers of a detectMessageDirection call
KnownBusiness(number, display) ==
    number # NoStr /\ Includes(BusinessNumbers(display), number)

\* the call returned this direction, confidence and the digits of `number`
Resolves(result, number, outgoing, confidence) ==
    /\ result.ok
    /\ result.isOutgoing = outgoing
    /\ result.confidence = confidence
    /\ result.waId = StripNonDigits(number)

(* C29: for a message whose `from` is not a known business number (an       *)
(* absent `from` included) detectMessageDirection takes the first rule that *)
(* matches: `to` a known business number gives incoming, waId = from,       *)
(* confidence 100; otherwise a present `from` gives incoming, waId = from,  *)
(* confidence 80; otherwise a present `to` that is no business number gives *)
(* outgoing, waId = to, confidence 60.                                       *)
C29_ResolutionOrder ==
    (probe.op = "detect" /\ ~KnownBusiness(probe.msg.from, probe.display))
    => IF KnownBusiness(probe.msg.to, probe.display)
       THEN Resolves(probe.result, probe.msg.from, FALSE, 100)
       ELSE IF probe.msg.from # NoStr
       THEN Resolves(probe.result, probe.msg.from, FALSE, 80)
       ELSE probe.msg.to # NoStr => Resolves(probe.result, probe.msg.to, TRUE, 60)

\* the values detection_confidence is documented to take
ConfidenceLevels == {20, 40, 60, 80, 100}

(* C30: the confidence recorded with a stored Message is one of 20, 40, 60, *)
(* 80, 100, for every Message processMessage has stored (a placeholder      *)
(* built from a status event records none), and a newly stored Message has  *)
(* confidence 100 only if its `from` or its `to` is a known business number *)
(* (the change's display_phone_number or a configured one).                 *)
C30_ConfidenceLevels ==
    [][/\ \A j \in DOMAIN messages' :
            ~messages'[j].status_only => messages'[j].confidence \in ConfidenceLevels
       /\ \A i \in DOMAIN workers :
            StoresMessage(i)
            => LET doc == messages'[Len(messages')]
               IN  /\ doc.messageId = workers[i].msg.id
                   /\ doc.confidence \in ConfidenceLevels
                   /\ doc.confidence = 100
                        => \/ KnownBusiness(workers[i].msg.from, main.display)
                           \/ KnownBusiness(workers[i].msg.to, main.display)]_vars

\* one stored Message was resolved from an explicit business number, another
\* by the last fallback
C30_Witness ==
    \E j, k \in DOMAIN messages :
        /\ ~messages[j].status_only /\ messages[j].confidence = 100
        /\ ~messages[k].status_only /\ messages[k].confidence = 20

\* Message.getUnreadCount(waId): the stored incoming Messages of waId that
\* are not read
UnreadMessages(store, waId) ==
    Cardinality({j \in 1..Len(store) :
                   /\ store[j].waId = waId
                   /\ store[j].type = "incoming"
                   /\ store[j].status # "read"})

(* C31: whenever no processMessage call is under way, the unreadCount of    *)
(* every Contact equals the number of stored incoming Messages with its     *)
(* waId whose status is not read.                                            *)
C31_UnreadIsCountOfUnread ==
    main.pc \in {"idle", "loop", "batch", "statuses"}
    => \A waId \in DOMAIN contacts :
         contacts[waId].unreadCount = UnreadMessages(messages, waId)

\* digits only, 10 to 15 of them, the first not 0
WellFormedWaId(w) ==
    /\ Len(w) >= 10 /\ Len(w) <= 15
    /\ \A n \in 1..Len(w) : IsDigit(w[n])
    /\ w[1] # "0"

(* C32: every waId the pipeline has stored, on a Message created from a     *)
(* message, on a placeholder Message created from a status event and on a   *)
(* Contact, consists of 10 to 15 digits and does not start with 0.          *)
C32_StoredWaIdIsWellFormed ==
    /\ \A j \in 1..Len(messages) : WellFormedWaId(messages[j].waId)
    /\ \A waId \in DOMAIN contacts : WellFormedWaId(waId)

(* C33 as stated: the status of every stored Message is one of sending,     *)
(* sent, delivered, read, failed, whatever status the payload's outgoing    *)
(* messages or status events carry.                                          *)
C33_StatusIsOneOfFive ==
    \A j \in 1..Len(messages) :
        messages[j].status \in {"sending", "sent", "delivered", "read", "failed"}

(* C33 as amended: the status of every stored Message is one of the seven   *)
(* values of the schema's enum: sending, sent, delivered, read, failed,     *)
(* pending, queued.  A message or status event with another status string   *)
(* stores and changes nothing.                                               *)
C33_StatusIsOfTheEnum ==
    \A j \in 1..Len(messages) :
        messages[j].status \in {"sending", "sent", "delivered", "read", "failed",
                                "pending", "queued"}

\* an outgoing message was stored as queued, and a status event with a
\* status outside the enum has failed on a stored Message and left it as sent
C33_Witness ==
    /\ \E j \in 1..Len(messages) : messages[j].status = "queued"
    /\ ret.op = "status"
    /\ ret.outcome = "threw"
    /\ ret.ev.status = "deleted"
    /\ \E j \in 1..Len(messages) :
         messages[j].messageId = ret.ev.id /\ messages[j].status = "sent"

\* the document passes every validator but, possibly, the enum of messageType
ValidButForKind(doc) == ValidMessage([doc EXCEPT !.messageType = "text"])

(* C34: a message that has reached its save with a resolved direction, a    *)
(* valid waId and an otherwise valid document is stored whatever kind       *)
(* extractMessageContent gave it, kind unknown included, and the stored     *)
(* Message carries that kind.                                                *)
C34_EveryKindIsStored ==
    [][\A i \in DOMAIN workers :
         (/\ Running(i, "save") /\ Steps(i)
          /\ workers[i].msg.id \notin StoredIds(messages)
          /\ ValidButForKind(workers[i].doc))
         => /\ Len(messages') = Len(messages) + 1
            /\ messages'[Len(messages')].messageId = workers[i].msg.id
            /\ messages'[Len(messages')].messageType
                 = extractMessageContent(workers[i].msg).type]_vars

\* what a status event may not change in a Message
Identity(doc) ==
    [messageId |-> doc.messageId, waId |-> doc.waId, fromNumber |-> doc.fromNumber,
     toNumber |-> doc.toNumber, type |-> doc.type, messageType |-> doc.messageType,
     text |-> doc.text, timestamp |-> doc.timestamp]

(* C35: no step removes or moves a stored Message or changes its            *)
(* messageId, waId, fromNumber, toNumber, direction, kind, body or message  *)
(* time; and one call of updateMessageStatus changes at most one stored     *)
(* Message, which is one the event's id or meta_msg_id names.               *)
C35_StatusEventFrame ==
    [][/\ Len(messages') >= Len(messages)
       /\ \A j \in DOMAIN messages : Identity(messages'[j]) = Identity(messages[j])
       /\ Attempts
          => \A j \in DOMAIN messages :
               messages'[j] # messages[j]
               => /\ messages[j].messageId \in {main.ev.id, main.ev.meta}
                  /\ \A k \in DOMAIN messages : messages'[k] # messages[k] => k = j]_vars

\* a read event has been applied to one of two stored Messages, an incoming
\* one that keeps its body
C35_Witness ==
    /\ ret.op = "status"
    /\ ret.outcome = "updated"
    /\ ret.ev.status = "read"
    /\ Len(messages) = 2
    /\ \E j \in DOMAIN messages :
         /\ messages[j].messageId = ret.ev.id
         /\ messages[j].type = "incoming"
         /\ messages[j].text = TxtHi
         /\ messages[j].status = "read"
         /\ messages[j].readAt = ParseDate(ret.ev.timestamp)

(* C36: processPayload terminates although any storage operation may fail, *)
(* every one of a run included.  No status event is attempted more than     *)
(* maxRetries = 3 times, a processMessage call that has ended is not run    *)
(* again, and a call that has entered its loop always reaches its return.   *)
C36_PayloadTerminates ==
    /\ [](ret.op = "status" => ret.attempt <= maxRetries)
    /\ [][\A i \in DOMAIN workers :
            (/\ main.pc = "group" /\ main'.pc = "group"
             /\ workers[i].pc \in {"failed", "done"})
            => workers'[i] = workers[i]]_vars
    /\ (main.pc # "idle") ~> (main.pc = "idle" /\ ret.op = "payload")

\* a call has returned after every item of its payload failed on the
\* storage: nothing is stored and every item is counted as failed
C36_Witness ==
    /\ main.pc = "idle"
    /\ ret.op = "payload"
    /\ ret.outcome = "returned"
    /\ ret.itemsOk = 0
    /\ ret.itemsFailed = MaxStormItems
    /\ messages = <<>>
    /\ contacts = <<>>
    /\ counters.errorCount > 0

\* processPayload reads the next change
ReadsChange == main.pc = "loop" /\ budget'.changes < budget.changes

(* C37: when the value of a change with field "messages" has contacts[],    *)
(* the entries of contacts[] are what the pipeline processes first, whether *)
(* or not the value also has messages[].                                     *)
C37_ContactsAreUpserted ==
    [][(ReadsChange /\ main'.contactsGiven) => main'.pc = "contacts"]_vars

\* reading the change raised an error that the catch of the entry recorded
ChangeFails == ReadsChange /\ Len(main'.errors) > Len(main.errors)

(* C38: a change that raises an error outside the per-message and           *)
(* per-status handlers (field "messages" and no value) aborts none of its   *)
(* siblings: one error entry is recorded, the loop goes on, and the         *)
(* remaining changes of the same entry are still read.                      *)
C38_FailedChangeKeepsSiblings ==
    [][ChangeFails
       => /\ Len(main'.errors) = Len(main.errors) + 1
          /\ main'.pc = "loop"
          /\ main'.entryOpen]_vars

\* the Contact of waId has the generated name and no picture
HasGeneratedProfile(cs, waId) ==
    /\ HasContact(cs, waId)
    /\ cs[waId].name = <<"Contact", waId>>
    /\ cs[waId].profilePic = ""

(* C39: when a new message is stored, the Contact of its waId has the name  *)
(* "Contact <waId>" and no picture, whatever name and picture a contacts[]  *)
(* entry of the same change had written for that waId; a message whose id   *)
(* is found in the store ends its call there and changes no Contact.        *)
C39_MessageResetsContactProfile ==
    [][\A i \in DOMAIN workers :
         /\ StoresMessage(i)
            => HasGeneratedProfile(contacts', messages'[Len(messages')].waId)
         /\ (/\ Running(i, "lookup") /\ Steps(i)
             /\ workers[i].msg.id \in StoredIds(messages))
            => /\ contacts' = contacts
               /\ workers'[i].pc = "done"]_vars

\* the last contacts[] entry of the change gave Ravi a profile name and a
\* picture, a message of Ravi was stored after it, and the Contact has the
\* generated name and no picture
C39_Witness ==
    /\ main.pc = "group"
    /\ ret.op = "contact"
    /\ ret.entry.name = "Ravi Kumar"
    /\ ret.entry.picture # ""
    /\ ret.entry.wa_id = Ravi
    /\ \E j \in DOMAIN messages : messages[j].waId = Ravi
    /\ HasGeneratedProfile(contacts, Ravi)

====
